---------------------------- MODULE Spec2Model ----------------------------
(***************************************************************************)
(* A model of package msbuild (src/msbuild.go): the Element tree with its *)
(* XML decoding and encoding, scanTemplate with the ExportProject         *)
(* callback, overrideSources / overrideHeaders, and exportFilter.         *)
(*                                                                         *)
(* Strings.  A Go string is modelled as a sequence of atoms.  An atom is  *)
(* either one character that the code or its libraries treat specially    *)
(* ("/", "\\", ".", "<", "&", a newline) or a maximal run of ordinary       *)
(* characters ("src", "cpp", "Source Files"); a drive prefix "C:" is one  *)
(* atom.  Every string operation of the code (filepath.Ext, Split, Clean, *)
(* Rel, Join, FromSlash, the slice path[0:len(path)-1]) only looks at the *)
(* special characters, so it acts on atoms as it does on bytes.           *)
(*                                                                         *)
(* Platform.  path/filepath is platform dependent; GOOS is part of the    *)
(* state and is drawn in Init.  Windows paths are modelled with drive     *)
(* letter volumes only (no UNC paths).                                    *)
(***************************************************************************)
EXTENDS Naturals, Sequences, FiniteSets, TLC

VARIABLES
  GOOS,        \* the platform the package was built for
  UUIDSPACE,   \* package variable UUIDSPACE (msbuild.go:13)
  files,       \* argument files of ExportProject / exportFilter
  pc,          \* position of the running function
  template,    \* content of template.vcxproj, as raw markup items
  element,     \* ExportProject: the decoded tree (*Element)
  decodeErr,   \* error returned by Decode (discarded by the code)
  scanned,     \* ghost: the decoded tree as it was before scanTemplate ran
  visited,     \* ghost: paths of the elements handed to the callback, in order
  projOut,     \* the project file <outdir>/<projname>.vcxproj
  filterOut,   \* the filter file <outpath>.filters
  elmFilters,  \* exportFilter: first ItemGroup of project
  elmEntries,  \* exportFilter: second ItemGroup of project
  idx,         \* exportFilter: index of the file the outer loop is at
  path,        \* exportFilter: variable path of the inner loop
  walked,      \* ghost: the values of path examined by the inner loop for the current file
  built,       \* a tree built through AddChild / AddAttribute / AddCharData
  calls,       \* number of calls that built it
  trip         \* result of encoding built, decoding it and encoding again

vars == << GOOS, UUIDSPACE, files, pc, template, element, decodeErr, scanned,
           visited, projOut, filterOut, elmFilters, elmEntries, idx, path,
           walked, built, calls, trip >>

----------------------------------------------------------------------------
(* Bounds of the model *)

\* longest file list given to exportFilter on its own
MaxFilterFiles == 3
\* longest file list given to ExportProject
MaxFiles == 2
\* largest number of method calls that build a tree
MaxNodes == 2

----------------------------------------------------------------------------
(* Generic helpers *)

Max(S) == CHOOSE m \in S : \A n \in S : n <= m

Front(s) == SubSeq(s, 1, Len(s) - 1)

Last(s) == s[Len(s)]

RECURSIVE ConcatAll(_)
ConcatAll(ss) == IF ss = <<>> THEN <<>> ELSE Head(ss) \o ConcatAll(Tail(ss))

\* all sequences over S of length at most n
SeqsUpTo(S, n) == UNION { [1..k -> S] : k \in 0..n }

----------------------------------------------------------------------------
(* path/filepath, as called by msbuild.go *)

Platforms == {"linux", "windows"}

Separator(os) == IF os = "windows" THEN "\\" ELSE "/"

IsPathSeparator(os, c) == c = "/" \/ (os = "windows" /\ c = "\\")

DriveAtoms == {"C:", "c:", "D:"}

\* strings.EqualFold on Windows, plain equality elsewhere (filepath.sameWord)
FoldAtom(a) == CASE a = "c:" -> "C:"
                 [] a = "W"  -> "w"
                 [] OTHER    -> a

Fold(os, s) == IF os = "windows" THEN [i \in DOMAIN s |-> FoldAtom(s[i])] ELSE s

sameWord(os, a, b) == Fold(os, a) = Fold(os, b)

VolumeNameLen(os, p) ==
  IF os = "windows" /\ Len(p) >= 1 /\ p[1] \in DriveAtoms THEN 1 ELSE 0

VolumeName(os, p) == SubSeq(p, 1, VolumeNameLen(os, p))

\* filepath.FromSlash: replaces each "/" by Separator
FromSlash(os, p) ==
  IF Separator(os) = "/" THEN p
  ELSE [i \in DOMAIN p |-> IF p[i] = "/" THEN Separator(os) ELSE p[i]]

\* index of the last path separator after the volume, or the volume length
LastSep(os, p) ==
  LET S == { i \in (VolumeNameLen(os, p) + 1)..Len(p) : IsPathSeparator(os, p[i]) }
  IN  IF S = {} THEN VolumeNameLen(os, p) ELSE Max(S)

\* filepath.Ext: the suffix from the last "." of the last path element
Ext(os, p) ==
  LET S == { i \in 1..Len(p) :
               p[i] = "." /\ \A j \in i..Len(p) : ~IsPathSeparator(os, p[j]) }
  IN  IF S = {} THEN <<>> ELSE SubSeq(p, Max(S), Len(p))

\* filepath.Split: <<dir, file>>, dir keeps its trailing separator
Split(os, p) ==
  LET i == LastSep(os, p) IN << SubSeq(p, 1, i), SubSeq(p, i + 1, Len(p)) >>

\* the path elements of p between separators (empty ones included)
SplitSegs(os, p) ==
  LET cuts   == {0} \cup { i \in DOMAIN p : IsPathSeparator(os, p[i]) } \cup {Len(p) + 1}
      nth(n) == CHOOSE c \in cuts : Cardinality({ d \in cuts : d < c }) = n - 1
  IN  [n \in 1..(Cardinality(cuts) - 1) |-> SubSeq(p, nth(n) + 1, nth(n + 1) - 1)]

RECURSIVE JoinSegs(_, _)
JoinSegs(segs, sep) ==
  IF segs = <<>> THEN <<>>
  ELSE IF Len(segs) = 1 THEN Head(segs)
  ELSE Head(segs) \o << sep >> \o JoinSegs(Tail(segs), sep)

Dot == << "." >>
DotDot == << ".", "." >>

\* the element stack of filepath.Clean: "." and empty elements dropped, ".."
\* removes the element before it, is dropped at the root and kept otherwise
RECURSIVE CleanFold(_, _, _)
CleanFold(segs, out, rooted) ==
  IF segs = <<>> THEN out
  ELSE LET s == Head(segs) IN
       IF s = <<>> \/ s = Dot THEN CleanFold(Tail(segs), out, rooted)
       ELSE IF s = DotDot
            THEN IF out # <<>> /\ Last(out) # DotDot
                 THEN CleanFold(Tail(segs), Front(out), rooted)
                 ELSE IF rooted THEN CleanFold(Tail(segs), out, rooted)
                 ELSE CleanFold(Tail(segs), Append(out, DotDot), rooted)
            ELSE CleanFold(Tail(segs), Append(out, s), rooted)

\* filepath.Clean
Clean(os, p) ==
  LET vl     == VolumeNameLen(os, p)
      vol    == SubSeq(p, 1, vl)
      rest   == SubSeq(p, vl + 1, Len(p))
      rooted == rest # <<>> /\ IsPathSeparator(os, rest[1])
      segs   == CleanFold(SplitSegs(os, rest), <<>>, rooted)
      body   == JoinSegs(segs, Separator(os))
  IN  IF rest = <<>> THEN vol \o Dot
      ELSE IF rooted THEN vol \o << Separator(os) >> \o body
      ELSE IF segs = <<>> THEN vol \o Dot
      ELSE vol \o body

\* filepath.Dir: all but the last element of p, cleaned
Dir(os, p) ==
  LET vl == VolumeNameLen(os, p)
      i  == LastSep(os, p)
  IN  SubSeq(p, 1, vl) \o Clean(os, SubSeq(p, vl + 1, i))

\* filepath.Join of two elements: empty elements ignored, the result cleaned
Join(os, a, b) ==
  LET parts == SelectSeq(<< a, b >>, LAMBDA e : e # <<>>)
  IN  IF parts = <<>> THEN <<>> ELSE Clean(os, JoinSegs(parts, Separator(os)))

\* number of leading elements on which base and targ agree (filepath.Rel's scan)
RECURSIVE CommonLen(_, _, _)
CommonLen(os, B, T) ==
  IF B = <<>> \/ T = <<>> THEN 0
  ELSE IF sameWord(os, Head(B), Head(T)) THEN 1 + CommonLen(os, Tail(B), Tail(T))
  ELSE 0

\* the elements Rel's scan steps over: those of a cleaned path, the empty one
\* before a leading separator included, none after a final separator
RelSegs(os, p) ==
  IF p = <<>> THEN <<>>
  ELSE IF Last(p) = Separator(os) THEN Front(SplitSegs(os, p))
  ELSE SplitSegs(os, p)

\* filepath.Rel: [err, path]
Rel(os, basepath, targpath) ==
  LET base0 == Clean(os, basepath)
      targ0 == Clean(os, targpath)
      baseV == VolumeName(os, basepath)
      targV == VolumeName(os, targpath)
      b1    == SubSeq(base0, Len(baseV) + 1, Len(base0))
      base  == IF b1 = Dot THEN <<>> ELSE b1
      targ  == SubSeq(targ0, Len(targV) + 1, Len(targ0))
      baseSlashed == base # <<>> /\ base[1] = Separator(os)
      targSlashed == targ # <<>> /\ targ[1] = Separator(os)
      B     == RelSegs(os, base)
      T     == RelSegs(os, targ)
      k     == CommonLen(os, B, T)
      restT == SubSeq(T, k + 1, Len(T))
      ups   == [i \in 1..(Len(B) - k) |-> DotDot]
  IN  IF sameWord(os, targ0, base0) THEN [err |-> FALSE, path |-> Dot]
      ELSE IF baseSlashed # targSlashed \/ ~sameWord(os, baseV, targV)
           THEN [err |-> TRUE, path |-> <<>>]
      ELSE IF k < Len(B) /\ B[k + 1] = DotDot THEN [err |-> TRUE, path |-> <<>>]
      ELSE [err |-> FALSE, path |-> JoinSegs(ups \o restT, Separator(os))]

\* the working directory: filepath.Abs(filepath.Dir("./")) (msbuild.go:198)
Cwd(os) == IF os = "windows" THEN << "C:", "\\", "w" >> ELSE << "/", "w" >>


----------------------------------------------------------------------------
(* type Element and its methods (msbuild.go:18-41) *)

XmlName(space, local) == [Space |-> space, Local |-> local]

\* &Element{} with name.Local set
NewElement(local) ==
  [name |-> XmlName(<<>>, local), attributes |-> <<>>, children |-> <<>>]

ElementChild(e) == [kind |-> "Element", el |-> e]
CharData(v)     == [kind |-> "CharData", value |-> v]
Comment(v)      == [kind |-> "Comment", value |-> v]

AddAttribute(e, name, value) ==
  [e EXCEPT !.attributes =
     Append(@, [Name |-> XmlName(<<>>, name), Value |-> value])]

\* AddChild appends the new element; the pointer it returns is the last child
AddChild(e, name) ==
  [e EXCEPT !.children = Append(@, ElementChild(NewElement(name)))]

AddCharData(e, value) == [e EXCEPT !.children = Append(@, CharData(value))]

\* the element AddChild has just returned
Returned(e) == e.children[Len(e.children)].el

\* a change made through the pointer AddChild has just returned
SetReturned(e, c) == [e EXCEPT !.children[Len(e.children)] = ElementChild(c)]

----------------------------------------------------------------------------
(* exportFilter (msbuild.go:192-275) *)

DefaultSpace == << "10758f2f-f8bc-4d6b-aeaa-8131bf78a862" >>
OtherSpace   == << "6ba7b810-9dad-11d1-80b4-00c04fd430c8" >>
BadSpace     == << "Your UUID Space Here" >>

\* uuid.Parse succeeds
ValidUUID(s) == s \in {DefaultSpace, OtherSpace}

\* uuid.NewSHA1(space, []byte(p)).String(): the hash is not computed; the text
\* stands for it as a term over the two arguments (one text per argument pair)
NewSHA1String(space, p) == << "sha1(" >> \o space \o << "," >> \o p \o << ")" >>

HeaderExt == << ".", "h" >>

\* msbuild.go:213-214: [err, path] of the file's directory relative to root
RelDir(os, file) == Rel(os, Cwd(os), Dir(os, FromSlash(os, file)))

\* msbuild.go:219-228: name (the category path) and tag of a file
Classify(os, file, dir) ==
  IF Ext(os, file) = HeaderExt
  THEN [name |-> Join(os, << "Header Files" >>, dir), tag |-> "ClInclude"]
  ELSE [name |-> Join(os, << "Source Files" >>, dir), tag |-> "ClCompile"]

\* msbuild.go:230-233: the entry appended to elmEntries
AddEntry(E, tag, file, name) ==
  LET e1 == AddChild(E, tag)
      c1 == AddAttribute(Returned(e1), "Include", file)
      c2 == AddChild(c1, "Filter")
      c3 == SetReturned(c2, AddCharData(Returned(c2), name))
  IN  SetReturned(e1, c3)

\* a variant of FilterExists that looks at the last declaration only
FilterExistsLast(F, p) ==
  F.children # <<>> /\ Last(F.children).el.attributes[1].Value = p

\* msbuild.go:237-244: the first attribute of some child of elmFilters is p
FilterExists(F, p) ==
  \E i \in DOMAIN F.children : F.children[i].el.attributes[1].Value = p

\* a variant of AddFilterDecl that hashes the last element of p in place of p
AddFilterDeclByFolder(F, space, p) ==
  LET idstr == NewSHA1String(space, << Last(p) >>)
      f1 == AddChild(F, "Filter")
      c1 == AddAttribute(Returned(f1), "Include", p)
      c2 == AddChild(c1, "UniqueIdentifier")
      c3 == SetReturned(c2, AddCharData(Returned(c2), << "{" >> \o idstr \o << "}" >>))
  IN  SetReturned(f1, c3)

\* msbuild.go:247-252: the declaration appended to elmFilters for p
AddFilterDecl(F, space, p) ==
  LET idstr == NewSHA1String(space, p)
      f1 == AddChild(F, "Filter")
      c1 == AddAttribute(Returned(f1), "Include", p)
      c2 == AddChild(c1, "UniqueIdentifier")
      c3 == SetReturned(c2, AddCharData(Returned(c2), << "{" >> \o idstr \o << "}" >>))
  IN  SetReturned(f1, c3)

\* msbuild.go:237-253: one pass of the inner loop over elmFilters
EnsureFilter(F, space, p) ==
  IF FilterExists(F, p) THEN F ELSE AddFilterDecl(F, space, p)

\* a variant of StepUp that keeps the separator filepath.Split leaves on dir
StepUpKeepSeparator(os, p) ==
  LET dir == Split(os, p)[1] IN [brk |-> dir = <<>>, path |-> dir]

\* msbuild.go:255-261: the next value of path, or the break
StepUp(os, p) ==
  LET dir == Split(os, p)[1]
  IN  [brk |-> Len(dir) = 0, path |-> IF Len(dir) = 0 THEN dir ELSE Front(dir)]

\* msbuild.go:235-262: the whole inner loop for one category path
RECURSIVE Walk(_, _, _, _)
Walk(os, F, space, p) ==
  LET up == StepUp(os, p)
  IN  IF FilterExists(F, p)
      THEN IF up.brk THEN F ELSE Walk(os, F, space, up.path)
      ELSE IF up.brk THEN AddFilterDecl(F, space, p)
           ELSE Walk(os, AddFilterDecl(F, space, p), space, up.path)

\* msbuild.go:213-262: the body of the outer loop for one file, on the two
\* groups g = [filters, entries]
FilterBody(os, space, g, f) ==
  LET file == FromSlash(os, f)
      rel  == RelDir(os, f)
      c    == Classify(os, file, rel.path)
  IN  IF rel.err THEN g
      ELSE [filters |-> Walk(os, g.filters, space, c.name),
            entries |-> AddEntry(g.entries, c.tag, file, c.name)]

\* msbuild.go:212-263: the two groups after the outer loop has done fs[1..n]
RECURSIVE FilterLoop(_, _, _, _, _)
FilterLoop(os, space, fs, n, g) ==
  IF n = 0 THEN g
  ELSE FilterBody(os, space, FilterLoop(os, space, fs, n - 1, g), fs[n])

FilterNamespace == << "http://schemas.microsoft.com/developer/msbuild/2003" >>

\* msbuild.go:204-210: project, with its two ItemGroup children
ProjectElement(F, E) ==
  [name |-> XmlName(FilterNamespace, "Project"),
   attributes |-> << [Name |-> XmlName(<<>>, "ToolsVersion"), Value |-> << "4.0" >>] >>,
   children |-> << ElementChild(F), ElementChild(E) >>]


----------------------------------------------------------------------------
(* Package xml (github.com/kuma777/go-msbuild/xml): Encoder and Decoder.   *)
(* A document is a sequence of markup items, which stands for its bytes:   *)
(*   [k |-> "start", name, attrs]   a start tag, attrs = <<[name, value]>> *)
(*   [k |-> "end", name]            an end tag                             *)
(*   [k |-> "text", data]           character data, escaped                *)
(*   [k |-> "comment", data]        a comment                              *)
(*   [k |-> "procinst", data]       a processing instruction               *)
(* Bytes carry no boundary between two runs of character data: a document  *)
(* never holds two adjacent text items nor an empty one.                   *)

EscapeAtom(a) == CASE a = "<"  -> "&lt;"
                   [] a = "&"  -> "&amp;"
                   [] a = "\n" -> "&#xA;"
                   [] OTHER    -> a

UnescapeAtom(a) == CASE a = "&lt;"  -> "<"
                     [] a = "&amp;" -> "&"
                     [] a = "&#xA;" -> "\n"
                     [] OTHER       -> a

\* xml.EscapeText
EscapeText(v) == [i \in DOMAIN v |-> EscapeAtom(v[i])]

\* the decoder's replacement of entities by the characters they name
Unescape(v) == [i \in DOMAIN v |-> UnescapeAtom(v[i])]

\* character data the tokenizer accepts: no bare "<" or "&"
WellFormedText(v) == \A i \in DOMAIN v : v[i] \notin {"<", "&"}

\* the token is written: EncodeToken refuses a tag with no name (the error is
\* not looked at, msbuild.go:46 and 61), and empty character data is no byte
Written(item) ==
  IF item.k \in {"start", "end"} THEN item.name # ""
  ELSE IF item.k = "text" THEN item.data # <<>>
  ELSE TRUE

\* the bytes of the character data items[i..j] one after the other
RECURSIVE RunData(_, _, _)
RunData(items, i, j) ==
  IF i > j THEN <<>> ELSE items[i].data \o RunData(items, i + 1, j)

\* the bytes in the sink after the tokens were given to EncodeToken in their
\* order: those written, a run of character data tokens being one run of bytes
WriteItems(tokens) ==
  LET w      == SelectSeq(tokens, Written)
      IsText(i) == w[i].k = "text"
      starts == { i \in DOMAIN w : ~IsText(i) \/ i = 1 \/ ~IsText(i - 1) }
      nth(n) == CHOOSE i \in starts : Cardinality({ j \in starts : j < i }) = n - 1
      stop(i) == CHOOSE j \in i..Len(w) :
                   /\ \A m \in i..j : IsText(m)
                   /\ (j = Len(w) \/ ~IsText(j + 1))
  IN  [n \in 1..Cardinality(starts) |->
         LET i == nth(n)
         IN  IF IsText(i) THEN [k |-> "text", data |-> RunData(w, i, stop(i))]
             ELSE w[i]]

\* Encoder.EncodeToken(StartElement): name, then xmlns of the name's space,
\* then the attributes in their order
StartItem(name, attributes) ==
  [k |-> "start", name |-> name.Local,
   attrs |-> (IF name.Space = <<>> THEN <<>>
              ELSE << [name |-> "xmlns", value |-> EscapeText(name.Space)] >>)
             \o [i \in DOMAIN attributes |->
                   [name |-> attributes[i].Name.Local,
                    value |-> EscapeText(attributes[i].Value)]]]

EndItem(name) == [k |-> "end", name |-> name.Local]

\* Decoder.Token for a start tag: the name in the space xmlns gives it (its own
\* or the enclosing one), the attributes unescaped
SpaceOf(item, ns) ==
  LET X == { i \in DOMAIN item.attrs : item.attrs[i].name = "xmlns" }
  IN  IF X = {} THEN ns ELSE Unescape(item.attrs[Max(X)].value)

StartToken(item, ns) ==
  [Name |-> XmlName(SpaceOf(item, ns), item.name),
   Attr |-> [i \in DOMAIN item.attrs |->
               [Name |-> XmlName(<<>>, item.attrs[i].name),
                Value |-> Unescape(item.attrs[i].value)]]]

----------------------------------------------------------------------------
(* Element.MarshalXML (msbuild.go:43-63) *)

RECURSIVE MarshalXML(_)

\* msbuild.go:47-60: the tokens the loop over in.children gives to the encoder
MarshalChildren(kids) ==
  ConcatAll([i \in DOMAIN kids |->
    LET c == kids[i] IN
    CASE c.kind = "Element"  -> MarshalXML(c.el)
      [] c.kind = "CharData" -> << [k |-> "text", data |-> EscapeText(c.value)] >>
      [] c.kind = "Comment"  -> << [k |-> "comment", data |-> c.value] >>])

\* MarshalXML: start tag, children in order, end tag
MarshalXML(in) ==
  << StartItem(in.name, in.attributes) >>
    \o MarshalChildren(in.children)
    \o << EndItem(in.name) >>

\* Encoder.Encode(element) on an empty sink
Marshal(in) == WriteItems(MarshalXML(in))

----------------------------------------------------------------------------
(* Element.UnmarshalXML (msbuild.go:65-94) *)

\* &Element{}
EmptyElement == [name |-> XmlName(<<>>, ""), attributes |-> <<>>, children |-> <<>>]

\* msbuild.go:66-67: out.name = start.Name; out.name.Space = ""
StoredName(name) == [name EXCEPT !.Space = <<>>]

\* a variant of PutChild that puts the child before the others
PutFirst(out, child) == [out EXCEPT !.children = << child >> \o @]

\* msbuild.go:87, 89, 91: out.children = append(out.children, child)
PutChild(out, child) == [out EXCEPT !.children = Append(@, child)]

RECURSIVE UnmarshalXML(_, _, _)
RECURSIVE ReadTokens(_, _, _, _, _)

\* msbuild.go:70-93: the token loop of an element whose start tag is doc[open];
\* [el, next, err]: the element as far as it was filled, the item after the
\* last one consumed, and whether an error was returned
ReadTokens(doc, open, i, out, ns) ==
  IF i > Len(doc)
  THEN [el |-> out, next |-> i, err |-> TRUE]     \* unexpected EOF inside an element
  ELSE LET t == doc[i] IN
       CASE t.k = "start" ->
              LET r == UnmarshalXML(doc, i, ns)
              IN  IF r.err THEN [el |-> out, next |-> r.next, err |-> TRUE]
                  ELSE ReadTokens(doc, open, r.next,
                         PutChild(out, ElementChild(r.el)), ns)
         [] t.k = "text" ->
              IF WellFormedText(t.data)
              THEN ReadTokens(doc, open, i + 1,
                     PutChild(out, CharData(Unescape(t.data))), ns)
              ELSE [el |-> out, next |-> i, err |-> TRUE]
         [] t.k = "comment" ->
              ReadTokens(doc, open, i + 1,
                PutChild(out, Comment(t.data)), ns)
         [] t.k = "end" ->
              IF t.name = doc[open].name
              THEN [el |-> out, next |-> i + 1, err |-> FALSE]  \* then io.EOF: return nil
              ELSE [el |-> out, next |-> i, err |-> TRUE]       \* closed by another name
         [] OTHER -> ReadTokens(doc, open, i + 1, out, ns)      \* no case: dropped

UnmarshalXML(doc, open, ns) ==
  LET start == StartToken(doc[open], ns)
  IN  ReadTokens(doc, open, open + 1,
        [name |-> StoredName(start.Name), attributes |-> start.Attr, children |-> <<>>],
        start.Name.Space)

\* Decoder.Decode(&element): the first start tag is looked for, what precedes
\* it is skipped; [el, err]
Decode(doc) ==
  LET S == { i \in DOMAIN doc : doc[i].k = "start" }
      E == { i \in DOMAIN doc : doc[i].k = "end" }
      first == CHOOSE i \in S : \A j \in S : i <= j
  IN  IF S = {} \/ (\E j \in E : \A i \in S : j < i)
      THEN [el |-> EmptyElement, err |-> TRUE]
      ELSE LET r == UnmarshalXML(doc, first, <<>>) IN [el |-> r.el, err |-> r.err]


----------------------------------------------------------------------------
(* Trees: paths to elements.  A path is the sequence of child indices that *)
(* leads from the root to an element.                                      *)

RECURSIVE IsElementPath(_, _)
IsElementPath(e, p) ==
  \/ p = <<>>
  \/ /\ Head(p) \in DOMAIN e.children
     /\ e.children[Head(p)].kind = "Element"
     /\ IsElementPath(e.children[Head(p)].el, Tail(p))

RECURSIVE Sub(_, _)
Sub(e, p) == IF p = <<>> THEN e ELSE Sub(e.children[Head(p)].el, Tail(p))

RECURSIVE ElementPaths(_)
ElementPaths(e) ==
  { <<>> } \cup UNION { { << i >> \o q : q \in ElementPaths(e.children[i].el) } :
                        i \in { j \in DOMAIN e.children : e.children[j].kind = "Element" } }

RECURSIVE ReplaceAt(_, _, _)
ReplaceAt(e, p, x) ==
  IF p = <<>> THEN x
  ELSE [e EXCEPT !.children[Head(p)] =
          ElementChild(ReplaceAt(e.children[Head(p)].el, Tail(p), x))]

----------------------------------------------------------------------------
(* overrideSources, overrideHeaders (msbuild.go:111-143) *)

CppExt == << ".", "cpp" >>
CxxExt == << ".", "cxx" >>

\* msbuild.go:121-124 and 138-141: the entry and the newline after it
AppendEntry(e, tag, file) ==
  LET e1 == AddChild(e, tag)
      e2 == SetReturned(e1, AddAttribute(Returned(e1), "Include", file))
  IN  AddCharData(e2, << "\n" >>)

\* a variant of SkipsSource that lets .cpp through only
SkipsAllButCpp(ext) == ext # CppExt

\* msbuild.go:117: the extensions overrideSources passes over
SkipsSource(ext) == ext # CppExt /\ ext # CxxExt

\* msbuild.go:134: the extensions overrideHeaders passes over
SkipsHeader(ext) == ext # HeaderExt

RECURSIVE SourcesLoop(_, _, _)
SourcesLoop(e, os, fs) ==
  IF fs = <<>> THEN e
  ELSE LET file == FromSlash(os, Head(fs))
           ext  == Ext(os, file)
       IN  IF SkipsSource(ext)
           THEN SourcesLoop(e, os, Tail(fs))
           ELSE SourcesLoop(AppendEntry(e, "ClCompile", file), os, Tail(fs))

overrideSources(e, os, fs) == SourcesLoop([e EXCEPT !.attributes = <<>>], os, fs)

RECURSIVE HeadersLoop(_, _, _)
HeadersLoop(e, os, fs) ==
  IF fs = <<>> THEN e
  ELSE LET file == FromSlash(os, Head(fs))
           ext  == Ext(os, file)
       IN  IF SkipsHeader(ext)
           THEN HeadersLoop(e, os, Tail(fs))
           ELSE HeadersLoop(AppendEntry(e, "ClInclude", file), os, Tail(fs))

overrideHeaders(e, os, fs) == HeadersLoop([e EXCEPT !.attributes = <<>>], os, fs)

----------------------------------------------------------------------------
(* The callback of ExportProject and scanTemplate (msbuild.go:96-109, 163-174) *)

\* a variant of ApplyLabel that does not look at the value of Label
ApplyAnyLabel(e, attr, os, fs) ==
  IF attr.Name.Local = "Label"
  THEN IF attr.Value = << "Headers" >> THEN overrideHeaders(e, os, fs)
       ELSE overrideSources(e, os, fs)
  ELSE e

\* msbuild.go:165-172: what one attribute of the range makes the callback do
ApplyLabel(e, attr, os, fs) ==
  IF attr.Name.Local = "Label"
  THEN CASE attr.Value = << "Sources" >> -> overrideSources(e, os, fs)
         [] attr.Value = << "Headers" >> -> overrideHeaders(e, os, fs)
         [] OTHER -> e
  ELSE e

\* msbuild.go:164: the range is over the attributes the element had on entry
RECURSIVE fnRange(_, _, _, _)
fnRange(e, attrs, os, fs) ==
  IF attrs = <<>> THEN e
  ELSE fnRange(ApplyLabel(e, Head(attrs), os, fs), Tail(attrs), os, fs)

fn(e, os, fs) == fnRange(e, e.attributes, os, fs)

RECURSIVE scanTemplate(_, _, _, _)
RECURSIVE scanChildren(_, _, _, _, _, _)

\* msbuild.go:100-107: the range over element.children from index i on;
\* [el, log]: the element after the calls, and the paths handed to the callback
scanChildren(e, i, here, os, fs, log) ==
  IF i > Len(e.children) THEN [el |-> e, log |-> log]
  ELSE IF e.children[i].kind = "Element"
       THEN LET r == scanTemplate(e.children[i].el, here \o << i >>, os, fs)
            IN  scanChildren([e EXCEPT !.children[i] = ElementChild(r.el)],
                             i + 1, here, os, fs, log \o r.log)
       ELSE scanChildren(e, i + 1, here, os, fs, log)

\* a variant of scanTemplate that goes on into the element it gave to fn
scanTemplateDescending(e, here, os, fs) ==
  IF e.name.Local = "ItemGroup"
  THEN scanChildren(fn(e, os, fs), 1, here, os, fs, << here >>)
  ELSE scanChildren(e, 1, here, os, fs, <<>>)

\* scanTemplate(element, fn), element being at path here
scanTemplate(e, here, os, fs) ==
  IF e.name.Local = "ItemGroup"
  THEN [el |-> fn(e, os, fs), log |-> << here >>]
  ELSE scanChildren(e, 1, here, os, fs, <<>>)


----------------------------------------------------------------------------
(* Inputs *)

Start(name, attrs) == [k |-> "start", name |-> name, attrs |-> attrs]
End(name)          == [k |-> "end", name |-> name]
Text(data)         == [k |-> "text", data |-> data]
Cmt(data)          == [k |-> "comment", data |-> data]
ProcInst(data)     == [k |-> "procinst", data |-> data]
At(name, value)    == [name |-> name, value |-> value]

\* the bytes of a sequence of items (adjacent character data joined)
Bytes(items) == WriteItems(items)

\* pieces a template is made of, in the order they are listed in
Fragments ==
  << \* nothing
     <<>>,
     \* a Sources group that carries attributes and content of its own
     << Start("ItemGroup", << At("Label", << "Sources" >>), At("Condition", << "c" >>) >>),
        Start("ClCompile", << At("Include", << "old", ".", "cpp" >>) >>), End("ClCompile"),
        End("ItemGroup") >>,
     \* a Headers group holding only white space
     << Start("ItemGroup", << At("Label", << "Headers" >>) >>), Text(<< "&#xA;" >>),
        End("ItemGroup") >>,
     \* a group with no label around a Sources group, then character data
     << Start("ItemGroup", <<>>),
        Start("ItemGroup", << At("Label", << "Sources" >>) >>), End("ItemGroup"),
        End("ItemGroup"), Text(<< "t", "&lt;" >>) >>,
     \* a group with another label, after a processing instruction
     << ProcInst(<< "p" >>),
        Start("ItemGroup", << At("Label", << "Other" >>), At("X", << "1" >>) >>),
        Start("None", <<>>), End("None"), End("ItemGroup") >>,
     \* a labelled element that is no group, around a Headers group
     << Start("PropertyGroup", << At("Label", << "Sources" >>) >>), Cmt(<< "k" >>),
        Start("ItemGroup", << At("X", << "1" >>), At("Label", << "Headers" >>) >>),
        End("ItemGroup"), End("PropertyGroup") >>,
     \* a group labelled twice
     << Start("ItemGroup", << At("Label", << "Sources" >>), At("Label", << "Headers" >>) >>),
        End("ItemGroup") >> >>

ProjectStart ==
  Start("Project", << At("xmlns", FilterNamespace), At("ToolsVersion", << "4.0" >>) >>)

\* <Project ...> f1 f2 </Project>, f1 listed before f2
WellFormedTemplates ==
  { Bytes(<< ProjectStart >> \o Fragments[p[1]] \o Fragments[p[2]]
                  \o << End("Project") >>) :
      p \in { q \in (DOMAIN Fragments) \X (DOMAIN Fragments) : q[1] < q[2] } }

\* the templates: the well-formed ones, those cut short before their last
\* item (an unterminated element), a template whose root is a group, and an
\* empty file
TemplatePool ==
  WellFormedTemplates
  \cup { Front(d) : d \in WellFormedTemplates }
  \cup { << Start("ItemGroup", << At("Label", << "Sources" >>) >>),
            Start("ItemGroup", << At("Label", << "Headers" >>) >>), End("ItemGroup"),
            End("ItemGroup") >>,
         <<>> }

\* file lists of ExportProject
ProjectFilePool ==
  { << "a", ".", "cpp" >>, << "b", ".", "h" >>, << "d", ".", "txt" >>,
    << "src", "/", "c", ".", "cxx" >> }

\* file lists of exportFilter: under the working directory, beside it, relative
FilterFilePool(os) ==
  IF os = "windows"
  THEN { << "C:", "\\", "w", "\\", "src", "\\", "a", ".", "cpp" >>,
         << "C:", "/", "w", "/", "src", "/", "b", ".", "cpp" >>,
         << "C:", "\\", "w", "\\", "inc", "\\", "a", ".", "h" >>,
         << "c:", "\\", "W", "\\", "src", "\\", "sub", "\\", "c", ".", "cxx" >>,
         << "C:", "\\", "x", "\\", "d", ".", "h" >>,
         << "D:", "\\", "w", "\\", "e", ".", "cpp" >>,
         << "src", "\\", "a", ".", "cpp" >> }
  ELSE { << "/", "w", "/", "src", "/", "a", ".", "cpp" >>,
         << "/", "w", "/", "src", "/", "b", ".", "cpp" >>,
         << "/", "w", "/", "inc", "/", "a", ".", "h" >>,
         << "/", "w", "/", "src", "/", "sub", "/", "c", ".", "cxx" >>,
         << "/", "x", "/", "d", ".", "h" >>,
         << "/", "w", "/", "m", ".", "h" >>,
         << "src", "/", "a", ".", "cpp" >> }

NoFile == [created |-> FALSE, data |-> <<>>]

NoTrip == [done |-> FALSE, enc |-> <<>>, dec |-> EmptyElement, err |-> FALSE, enc2 |-> <<>>]


----------------------------------------------------------------------------
(* ExportProject (msbuild.go:145-190) *)

Init ==
  /\ GOOS \in Platforms
  /\ UUIDSPACE = DefaultSpace
  /\ files \in SeqsUpTo(ProjectFilePool, MaxFiles)
  /\ template \in TemplatePool
  /\ pc = "open"
  /\ element = EmptyElement
  /\ decodeErr = FALSE
  /\ scanned = EmptyElement
  /\ visited = <<>>
  /\ projOut = NoFile
  /\ filterOut = NoFile
  /\ elmFilters = EmptyElement
  /\ elmEntries = EmptyElement
  /\ idx = 0
  /\ path = <<>>
  /\ walked = <<>>
  /\ built = EmptyElement
  /\ calls = 0
  /\ trip = NoTrip

\* msbuild.go:146-156: the executable's directory and the template are found,
\* or the function returns
OpenTemplate ==
  /\ pc = "open"
  /\ \E ok \in BOOLEAN : pc' = IF ok THEN "decode" ELSE "done"
  /\ UNCHANGED << GOOS, UUIDSPACE, files, template, element, decodeErr, scanned,
                  visited, projOut, filterOut, elmFilters, elmEntries, idx, path,
                  walked, built, calls, trip >>

\* msbuild.go:158-161: element is decoded into; the error is not looked at
DecodeTemplate ==
  /\ pc = "decode"
  /\ LET r == Decode(template)
     IN  /\ element' = r.el
         /\ scanned' = r.el
         /\ decodeErr' = r.err
  /\ pc' = "scan"
  /\ UNCHANGED << GOOS, UUIDSPACE, files, template, visited, projOut,
                  filterOut, elmFilters, elmEntries, idx, path, walked, built,
                  calls, trip >>

\* msbuild.go:176: scanTemplate(element, fn)
ScanTemplate ==
  /\ pc = "scan"
  /\ LET r == scanTemplate(element, <<>>, GOOS, files)
     IN  /\ element' = r.el
         /\ visited' = r.log
  /\ scanned' = element
  /\ pc' = "write"
  /\ UNCHANGED << GOOS, UUIDSPACE, files, template, decodeErr, projOut, filterOut,
                  elmFilters, elmEntries, idx, path, walked, built, calls, trip >>

\* msbuild.go:178-187: the project file is created and element encoded into
\* it; a failed write leaves it empty (Encode's error is not looked at)
WriteProject ==
  /\ pc = "write"
  /\ \E opened \in BOOLEAN, wrote \in BOOLEAN :
       IF opened
       THEN /\ projOut' = [created |-> TRUE,
                           data |-> IF wrote THEN Marshal(element) ELSE <<>>]
            /\ pc' = "filter"
       ELSE /\ projOut' = projOut
            /\ pc' = "done"
  /\ UNCHANGED << GOOS, UUIDSPACE, files, template, element, decodeErr, scanned,
                  visited, filterOut, elmFilters, elmEntries, idx, path, walked,
                  built, calls, trip >>

\* msbuild.go:265-274: the filter file is created and project encoded into it.
\* Encoder.Indent only adds white space between tags; data is the content
\* without it.
WrittenFilter(F, E, opened, wrote) ==
  IF opened
  THEN [created |-> TRUE, data |-> IF wrote THEN Marshal(ProjectElement(F, E)) ELSE <<>>]
  ELSE NoFile

\* msbuild.go:204-263: the two groups once the loop over files has ended
FilterGroups(os, space, fs) ==
  FilterLoop(os, space, fs, Len(fs),
             [filters |-> NewElement("ItemGroup"), entries |-> NewElement("ItemGroup")])

\* msbuild.go:189: exportFilter(files, outpath + ".filters"), from its first
\* line to its return
ExportFilterCall ==
  /\ pc = "filter"
  /\ \E rootOk \in BOOLEAN, opened \in BOOLEAN, wrote \in BOOLEAN :
       IF ValidUUID(UUIDSPACE) /\ rootOk
       THEN /\ elmFilters' = FilterGroups(GOOS, UUIDSPACE, files).filters
            /\ elmEntries' = FilterGroups(GOOS, UUIDSPACE, files).entries
            /\ idx' = Len(files) + 1
            /\ filterOut' = WrittenFilter(elmFilters', elmEntries', opened, wrote)
       ELSE UNCHANGED << elmFilters, elmEntries, idx, filterOut >>
  /\ pc' = "done"
  /\ UNCHANGED << GOOS, UUIDSPACE, files, template, element, decodeErr, scanned,
                  visited, projOut, path, walked, built, calls, trip >>

Next ==
  \/ OpenTemplate
  \/ DecodeTemplate
  \/ ScanTemplate
  \/ WriteProject
  \/ ExportFilterCall

Spec == Init /\ [][Next]_vars

----------------------------------------------------------------------------
(* exportFilter on its own, one loop iteration at a time *)

InitFilter ==
  /\ GOOS \in Platforms
  /\ UUIDSPACE \in {DefaultSpace, BadSpace}
  /\ files \in SeqsUpTo(FilterFilePool(GOOS), MaxFilterFiles)
  /\ template = <<>>
  /\ pc = "filter_start"
  /\ element = EmptyElement
  /\ decodeErr = FALSE
  /\ scanned = EmptyElement
  /\ visited = <<>>
  /\ projOut = NoFile
  /\ filterOut = NoFile
  /\ elmFilters = EmptyElement
  /\ elmEntries = EmptyElement
  /\ idx = 0
  /\ path = <<>>
  /\ walked = <<>>
  /\ built = EmptyElement
  /\ calls = 0
  /\ trip = NoTrip

\* msbuild.go:193-210: the namespace is parsed, the root found and project
\* set up, or the function returns
FilterStart ==
  /\ pc = "filter_start"
  /\ \E rootOk \in BOOLEAN :
       IF ValidUUID(UUIDSPACE) /\ rootOk
       THEN /\ elmFilters' = NewElement("ItemGroup")
            /\ elmEntries' = NewElement("ItemGroup")
            /\ idx' = 1
            /\ pc' = "filter_file"
       ELSE /\ pc' = "done"
            /\ UNCHANGED << elmFilters, elmEntries, idx >>
  /\ UNCHANGED << GOOS, UUIDSPACE, files, template, element, decodeErr, scanned,
                  visited, projOut, filterOut, path, walked, built, calls, trip >>

\* msbuild.go:212-235: the outer loop takes file idx: it is skipped, or its
\* entry is appended and the inner loop entered with path = name
FilterFile ==
  /\ pc = "filter_file"
  /\ idx <= Len(files)
  /\ LET file == FromSlash(GOOS, files[idx])
         rel  == RelDir(GOOS, files[idx])
         c    == Classify(GOOS, file, rel.path)
     IN  IF rel.err
         THEN /\ idx' = idx + 1
              /\ UNCHANGED << elmEntries, path, pc >>
         ELSE /\ elmEntries' = AddEntry(elmEntries, c.tag, file, c.name)
              /\ path' = c.name
              /\ pc' = "filter_walk"
              /\ idx' = idx
  /\ walked' = <<>>
  /\ UNCHANGED << GOOS, UUIDSPACE, files, template, element, decodeErr, scanned,
                  visited, projOut, filterOut, elmFilters, built, calls, trip >>

\* msbuild.go:236-262: one pass of the inner loop
FilterWalk ==
  /\ pc = "filter_walk"
  /\ elmFilters' = EnsureFilter(elmFilters, UUIDSPACE, path)
  /\ walked' = Append(walked, path)
  /\ LET up == StepUp(GOOS, path)
     IN  IF up.brk
         THEN /\ idx' = idx + 1
              /\ pc' = "filter_file"
              /\ path' = up.path
         ELSE /\ path' = up.path
              /\ UNCHANGED << idx, pc >>
  /\ UNCHANGED << GOOS, UUIDSPACE, files, template, element, decodeErr, scanned,
                  visited, projOut, filterOut, elmEntries, built, calls, trip >>

\* msbuild.go:265-274: after the last file
FilterWrite ==
  /\ pc = "filter_file"
  /\ idx > Len(files)
  /\ \E opened \in BOOLEAN, wrote \in BOOLEAN :
       filterOut' = WrittenFilter(elmFilters, elmEntries, opened, wrote)
  /\ pc' = "done"
  /\ UNCHANGED << GOOS, UUIDSPACE, files, template, element, decodeErr, scanned,
                  visited, projOut, elmFilters, elmEntries, idx, path, walked,
                  built, calls, trip >>

NextFilter ==
  \/ FilterStart
  \/ FilterFile
  \/ FilterWalk
  \/ FilterWrite

SpecFilter == InitFilter /\ [][NextFilter]_vars


----------------------------------------------------------------------------
(* Trees built through the methods of Element, then encoded and decoded *)

NamePool == {"ItemGroup", "X"}
AttrPool == { << "Label", << "Sources" >> >>, << "Include", << "a", "&", "b" >> >> }
TextPool == { << "a" >>, << "<", "\n" >>, <<>> }

\* the trees building starts from: a bare element, the project element of
\* exportFilter (msbuild.go:204-210), and a decoded element holding a comment
BaseTrees ==
  { NewElement("Project"),
    ProjectElement(NewElement("ItemGroup"), NewElement("ItemGroup")),
    Decode(<< Start("A", <<>>), Cmt(<< "k" >>), Start("B", <<>>), End("B"), End("A") >>).el }

InitTree ==
  /\ GOOS = "linux"
  /\ UUIDSPACE = DefaultSpace
  /\ files = <<>>
  /\ template = <<>>
  /\ pc = "build"
  /\ element = EmptyElement
  /\ decodeErr = FALSE
  /\ scanned = EmptyElement
  /\ visited = <<>>
  /\ projOut = NoFile
  /\ filterOut = NoFile
  /\ elmFilters = EmptyElement
  /\ elmEntries = EmptyElement
  /\ idx = 0
  /\ path = <<>>
  /\ walked = <<>>
  /\ built \in BaseTrees
  /\ calls = 0
  /\ trip = NoTrip

\* e.AddChild(name) on the element at path p
BuildAddChild ==
  /\ pc = "build"
  /\ calls < MaxNodes
  /\ \E p \in ElementPaths(built), n \in NamePool :
       built' = ReplaceAt(built, p, AddChild(Sub(built, p), n))
  /\ calls' = calls + 1
  /\ UNCHANGED << GOOS, UUIDSPACE, files, pc, template, element, decodeErr, scanned,
                  visited, projOut, filterOut, elmFilters, elmEntries, idx, path,
                  walked, trip >>

\* e.AddAttribute(name, value) on the element at path p
BuildAddAttribute ==
  /\ pc = "build"
  /\ calls < MaxNodes
  /\ \E p \in ElementPaths(built), a \in AttrPool :
       built' = ReplaceAt(built, p, AddAttribute(Sub(built, p), a[1], a[2]))
  /\ calls' = calls + 1
  /\ UNCHANGED << GOOS, UUIDSPACE, files, pc, template, element, decodeErr, scanned,
                  visited, projOut, filterOut, elmFilters, elmEntries, idx, path,
                  walked, trip >>

\* e.AddCharData(value) on the element at path p
BuildAddCharData ==
  /\ pc = "build"
  /\ calls < MaxNodes
  /\ \E p \in ElementPaths(built), v \in TextPool :
       built' = ReplaceAt(built, p, AddCharData(Sub(built, p), v))
  /\ calls' = calls + 1
  /\ UNCHANGED << GOOS, UUIDSPACE, files, pc, template, element, decodeErr, scanned,
                  visited, projOut, filterOut, elmFilters, elmEntries, idx, path,
                  walked, trip >>

\* Encode(built), Decode of the bytes, Encode of what was decoded
RoundTrip ==
  /\ pc = "build"
  /\ trip' = [done |-> TRUE,
              enc  |-> Marshal(built),
              dec  |-> Decode(Marshal(built)).el,
              err  |-> Decode(Marshal(built)).err,
              enc2 |-> Marshal(Decode(Marshal(built)).el)]
  /\ pc' = "tripped"
  /\ UNCHANGED << GOOS, UUIDSPACE, files, template, element, decodeErr, scanned,
                  visited, projOut, filterOut, elmFilters, elmEntries, idx, path,
                  walked, built, calls >>

NextTree ==
  \/ BuildAddChild
  \/ BuildAddAttribute
  \/ BuildAddCharData
  \/ RoundTrip

SpecTree == InitTree /\ [][NextTree]_vars


----------------------------------------------------------------------------
(* Properties of the scan and of the rewrite (specification Spec) *)

\* the element is one the callback rewrites: a group whose Label is Sources or Headers
Rewritable(e) ==
  /\ e.name.Local = "ItemGroup"
  /\ \E i \in DOMAIN e.attributes :
       /\ e.attributes[i].Name.Local = "Label"
       /\ e.attributes[i].Value \in { << "Sources" >>, << "Headers" >> }

\* the entries a policy generates from the file list: one per file of the
\* extensions, in input order, each followed by a newline
ExpectedEntries(os, fs, exts, tag) ==
  LET native == [k \in DOMAIN fs |-> FromSlash(os, fs[k])]
      sel    == SelectSeq(native, LAMBDA f : Ext(os, f) \in exts)
  IN  ConcatAll([k \in DOMAIN sel |->
        << ElementChild([name |-> XmlName(<<>>, tag),
                         attributes |-> << [Name |-> XmlName(<<>>, "Include"),
                                            Value |-> sel[k]] >>,
                         children |-> <<>>]),
           CharData(<< "\n" >>) >>])

ExpectedSources(os, fs) == ExpectedEntries(os, fs, {CppExt, CxxExt}, "ClCompile")
ExpectedHeaders(os, fs) == ExpectedEntries(os, fs, {HeaderExt}, "ClInclude")

\* what the callback appends to an element that had the attributes attrs: the
\* entries of the policy of each of its Label attributes, in their order
ExpectedAppended(attrs, os, fs) ==
  ConcatAll([i \in DOMAIN attrs |->
    IF attrs[i].Name.Local # "Label" THEN <<>>
    ELSE IF attrs[i].Value = << "Sources" >> THEN ExpectedSources(os, fs)
    ELSE IF attrs[i].Value = << "Headers" >> THEN ExpectedHeaders(os, fs)
    ELSE <<>>])

\* C1: a rewritten group keeps none of the attributes and none of the
\* children it had; its children are exactly the generated entries.
C1_DestructiveRewrite ==
  \A i \in DOMAIN visited :
    LET old == Sub(scanned, visited[i])
        new == Sub(element, visited[i])
    IN  Rewritable(old) =>
          /\ new.attributes = <<>>
          /\ new.children = ExpectedAppended(old.attributes, GOOS, files)

\* C2: what a policy appends to a matched group is exactly one entry per file
\* of its extensions (.cpp, .cxx as ClCompile; .h as ClInclude), duplicates
\* kept, in input order, each with the file path (in the platform's
\* separators) as its only attribute and each followed by one newline; files
\* of other extensions give nothing.
C2_ExtensionFiltering ==
  \A i \in DOMAIN visited :
    LET old == Sub(scanned, visited[i])
        new == Sub(element, visited[i])
    IN  new.children = old.children \o ExpectedAppended(old.attributes, GOOS, files)

\* a Sources group has been rewritten from a list of one source file and one
\* other file, and a Headers group from a list holding a header
C2_Witness ==
  /\ pc = "write"
  /\ Len(files) = 2
  /\ \E k \in DOMAIN files : Ext(GOOS, files[k]) \in {CppExt, CxxExt}
  /\ \E k \in DOMAIN files : Ext(GOOS, files[k]) \notin {CppExt, CxxExt}
  /\ \E i \in DOMAIN visited :
       /\ Rewritable(Sub(scanned, visited[i]))
       /\ Len(Sub(element, visited[i]).children)
            = Len(Sub(scanned, visited[i]).children) + 2

\* some group was rewritten by the callback
RewriteApplied == \E i \in DOMAIN visited : Rewritable(Sub(scanned, visited[i]))

\* C6: after a failed decode no policy is applied and neither file is written.
C6_DecodeFailureAborts ==
  decodeErr => ~RewriteApplied /\ projOut = NoFile /\ filterOut = NoFile

\* p comes before q in document order (neither is above the other)
RECURSIVE Before(_, _)
Before(p, q) ==
  /\ p # <<>>
  /\ q # <<>>
  /\ \/ Head(p) < Head(q)
     \/ Head(p) = Head(q) /\ Before(Tail(p), Tail(q))

\* the groups with no group above them
TopGroups(e) ==
  { p \in ElementPaths(e) :
      /\ Sub(e, p).name.Local = "ItemGroup"
      /\ \A k \in 0..(Len(p) - 1) : Sub(e, SubSeq(p, 1, k)).name.Local # "ItemGroup" }

\* a set of paths, none above another, in document order
RECURSIVE InDocumentOrder(_)
InDocumentOrder(S) ==
  IF S = {} THEN <<>>
  ELSE LET first == CHOOSE p \in S : \A q \in S \ {p} : Before(p, q)
       IN  << first >> \o InDocumentOrder(S \ {first})

\* C8: once scanTemplate has returned, the callback has been given exactly the
\* groups that have no group above them, each once, in document order; what
\* it was given is always an element.
C8_ScanOrder ==
  pc \in {"write", "filter", "done"} =>
    /\ visited = InDocumentOrder(TopGroups(scanned))
    /\ \A i \in DOMAIN visited : IsElementPath(scanned, visited[i])

\* a scan that met two groups, and a group inside a group
C8_Witness ==
  /\ pc = "write"
  /\ Len(visited) >= 2
  /\ \E p \in ElementPaths(scanned) :
       Sub(scanned, p).name.Local = "ItemGroup" /\ p \notin TopGroups(scanned)

\* an element's own content: its name, its attributes, and its children with
\* an element child taken as its name only
Own(e) ==
  [name |-> e.name, attributes |-> e.attributes,
   children |-> [i \in DOMAIN e.children |->
                   IF e.children[i].kind = "Element"
                   THEN << "Element", e.children[i].el.name >>
                   ELSE << e.children[i].kind, e.children[i].value >>]]

\* C9: the scan leaves every element that is not a group labelled Sources or
\* Headers with the name, the attributes and the own children it had.
C9_Frame ==
  \A p \in ElementPaths(scanned) :
    ~Rewritable(Sub(scanned, p)) =>
      /\ IsElementPath(element, p)
      /\ Own(Sub(element, p)) = Own(Sub(scanned, p))

\* a scan that rewrote a group and met a group with another label
C9_Witness ==
  /\ pc = "write"
  /\ element # scanned
  /\ \E i \in DOMAIN visited :
       LET e == Sub(scanned, visited[i])
       IN  /\ ~Rewritable(e)
           /\ \E k \in DOMAIN e.attributes : e.attributes[k].Name.Local = "Label"


----------------------------------------------------------------------------
(* Properties of exportFilter (specification SpecFilter) *)

\* the Include paths of the declarations of the filters group, in order
Declared(F) == [i \in DOMAIN F.children |-> F.children[i].el.attributes[1].Value]

\* the Include paths of the entries of the entries group, in order
Entered(E) == [i \in DOMAIN E.children |-> E.children[i].el.attributes[1].Value]

\* a category path and the paths got by dropping its last elements, longest first
Chain(os, name) ==
  LET segs == SplitSegs(os, name)
  IN  [k \in 1..Len(segs) |->
         JoinSegs(SubSeq(segs, 1, Len(segs) + 1 - k), Separator(os))]

Range(s) == { s[i] : i \in DOMAIN s }

\* the category path of a file that is not skipped
CategoryPath(os, file) ==
  Classify(os, FromSlash(os, file), RelDir(os, file).path).name

\* the paths the files fs[1..n] require: the category path of each file that
\* is not skipped, and its ancestors
RequiredPaths(os, fs, n) ==
  UNION { Range(Chain(os, CategoryPath(os, fs[k]))) :
            k \in { j \in 1..n : ~RelDir(os, fs[j]).err } }

\* the files the outer loop is done with
Done == IF pc = "filter_file" THEN idx - 1 ELSE IF pc = "done" THEN Len(files) ELSE 0

\* the file is given by a path relative to the working directory
IsRelative(os, file) ==
  LET f == FromSlash(os, file)
  IN  /\ VolumeNameLen(os, f) = 0
      /\ (f = <<>> \/ ~IsPathSeparator(os, f[1]))

\* the category path of a file whose directory is taken relative to the
\* root ".": the directory of a relative path is that already
StatedCategoryPath(os, file) ==
  IF IsRelative(os, file)
  THEN Classify(os, FromSlash(os, file), Dir(os, FromSlash(os, file))).name
  ELSE CategoryPath(os, file)

\* the file is skipped when relative paths are relative to the root "."
StatedSkipped(os, file) == ~IsRelative(os, file) /\ RelDir(os, file).err

StatedPaths(os, fs) ==
  UNION { Range(Chain(os, StatedCategoryPath(os, fs[k]))) :
            k \in { j \in DOMAIN fs : ~StatedSkipped(os, fs[j]) } }

\* whenever the outer loop is between two files, and when it has ended, the
\* filters group holds exactly one declaration for each path that the files
\* done so far and not skipped require, and no other
DeclaredOncePerRequiredPath ==
  (pc \in {"filter_file", "done"} /\ elmFilters # EmptyElement) =>
    /\ Range(Declared(elmFilters)) = RequiredPaths(GOOS, files, Done)
    /\ Cardinality(Range(Declared(elmFilters))) = Len(elmFilters.children)

\* C3: after exportFilter has processed a file list, the filters group holds
\* exactly one declaration for each category path of a file and each of its
\* ancestors, and no other, where a file given relative to the root "."
\* (src/a.cpp gives Source Files and Source Files/src) is not skipped.
C3_FilterDeduplication ==
  (pc = "done" /\ elmFilters # EmptyElement) =>
    /\ Range(Declared(elmFilters)) = StatedPaths(GOOS, files)
    /\ Cardinality(Range(Declared(elmFilters))) = Len(elmFilters.children)

\* the directory of the file lies outside the root: it is rooted, on the
\* root's volume, and the root's elements do not begin it
OutsideRoot(os, file) ==
  LET d == Dir(os, FromSlash(os, file))
      D == RelSegs(os, SubSeq(d, VolumeNameLen(os, d) + 1, Len(d)))
      R == RelSegs(os, SubSeq(Cwd(os), VolumeNameLen(os, Cwd(os)) + 1, Len(Cwd(os))))
  IN  /\ Len(d) > VolumeNameLen(os, d)
      /\ IsPathSeparator(os, d[VolumeNameLen(os, d) + 1])
      /\ sameWord(os, VolumeName(os, d), VolumeName(os, Cwd(os)))
      /\ ~(Len(D) >= Len(R) /\ \A k \in DOMAIN R : sameWord(os, D[k], R[k]))

\* the file is one the claim has skipped
Unresolvable(os, file) == RelDir(os, file).err \/ OutsideRoot(os, file)

\* C4: a file whose directory cannot be made relative to the root, a file
\* outside the root included, gives no entry and no declaration, and the
\* other files are processed as if it were not in the list.
C4_SkipUnresolvable ==
  (pc = "done" /\ elmFilters # EmptyElement) =>
    /\ \A k \in DOMAIN files :
         Unresolvable(GOOS, files[k]) =>
           FromSlash(GOOS, files[k]) \notin Range(Entered(elmEntries))
    /\ [filters |-> elmFilters, entries |-> elmEntries]
         = FilterGroups(GOOS, UUIDSPACE,
                        SelectSeq(files, LAMBDA f : ~Unresolvable(GOOS, f)))

\* C5: every declaration of the filters group holds, as its only child, a
\* UniqueIdentifier whose text is the version-5 UUID of (UUIDSPACE, the
\* declaration's own Include path) between braces.
C5_IdentifierDeterminism ==
  \A i \in DOMAIN elmFilters.children :
    LET d == elmFilters.children[i].el
    IN  /\ d.name.Local = "Filter"
        /\ Len(d.attributes) = 1
        /\ d.attributes[1].Name.Local = "Include"
        /\ d.children =
             << ElementChild(
                  [name |-> XmlName(<<>>, "UniqueIdentifier"),
                   attributes |-> <<>>,
                   children |-> << CharData(<< "{" >>
                                     \o NewSHA1String(UUIDSPACE, d.attributes[1].Value)
                                     \o << "}" >>) >>]) >>

\* a declaration of more than one element that no file's category path made:
\* it was declared as the ancestor of one
C5_Witness ==
  \E i \in DOMAIN elmFilters.children :
    LET a == Declared(elmFilters)[i]
    IN  /\ Len(SplitSegs(GOOS, a)) >= 2
        /\ \A k \in DOMAIN files :
             RelDir(GOOS, files[k]).err \/ CategoryPath(GOOS, files[k]) # a

\* the values of path the inner loop has examined for the current file, the
\* one it is at included
Examined == IF pc = "filter_walk" THEN Append(walked, path) ELSE walked

\* C10: the inner loop examines the category path of the file and then its
\* ancestors, each shorter than the one before, each once and none empty, and
\* it ends after the last of them.
C10_AncestorWalk ==
  Examined # <<>> =>
    LET chain == Chain(GOOS, Examined[1])
    IN  /\ Examined[1] = CategoryPath(GOOS, files[IF pc = "filter_walk" THEN idx ELSE idx - 1])
        /\ Len(Examined) <= Len(chain)
        /\ Examined = SubSeq(chain, 1, Len(Examined))
        /\ \A k \in DOMAIN Examined : Examined[k] # <<>>
        /\ \A k \in 2..Len(Examined) : Len(Examined[k]) < Len(Examined[k - 1])
        /\ (pc # "filter_walk" => Examined = chain)

\* the inner loop has ended after a path of three elements
C10_Witness ==
  /\ pc = "filter_file"
  /\ Len(walked) = 3

----------------------------------------------------------------------------
(* Properties of encoding and decoding (specification SpecTree) *)

\* the children as they come back: empty character data gone, adjacent
\* character data joined
RECURSIVE JoinedText(_)
JoinedText(kids) ==
  IF kids = <<>> THEN <<>>
  ELSE LET c == Head(kids)
           r == JoinedText(Tail(kids))
       IN  IF c.kind # "CharData" THEN << c >> \o r
           ELSE IF c.value = <<>> THEN r
           ELSE IF r # <<>> /\ Head(r).kind = "CharData"
                THEN << CharData(c.value \o Head(r).value) >> \o Tail(r)
           ELSE << c >> \o r

\* the tree as it comes back: names without their space, which has become an
\* xmlns attribute put first, and the children as above, at every level
RECURSIVE ComesBack(_)
ComesBack(e) ==
  [name |-> XmlName(<<>>, e.name.Local),
   attributes |-> (IF e.name.Space = <<>> THEN <<>>
                   ELSE << [Name |-> XmlName(<<>>, "xmlns"), Value |-> e.name.Space] >>)
                  \o e.attributes,
   children |-> JoinedText([i \in DOMAIN e.children |->
                   IF e.children[i].kind = "Element"
                   THEN ElementChild(ComesBack(e.children[i].el))
                   ELSE e.children[i]])]

\* C7 as stated: decoding the encoding gives the tree back, names, attributes
\* and children, at every level.
C7_RoundTripExact == trip.done => trip.dec = built

\* C7 as amended: decoding the encoding gives the tree back with its names,
\* attributes and children in their order, but for a name's space, which comes
\* back as an xmlns attribute, and for character data: adjacent runs come back
\* as one and an empty run does not come back; encoding what was decoded
\* gives the same bytes.
C7_RoundTrip ==
  trip.done =>
    /\ ~trip.err
    /\ trip.dec = ComesBack(built)
    /\ trip.enc2 = trip.enc

\* a tree with a text run before and after an element child, the text
\* holding a character that is escaped, has been encoded and decoded
C7_Witness ==
  /\ trip.done
  /\ trip.dec = built
  /\ \E p \in ElementPaths(built) :
       LET kids == Sub(built, p).children
       IN  \E i \in DOMAIN kids :
             /\ kids[i].kind = "CharData"
             /\ "<" \in Range(kids[i].value)
             /\ i + 1 \in DOMAIN kids
             /\ kids[i + 1].kind = "Element"

=============================================================================
